---------------------------- MODULE Spec2Model ----------------------------
(***************************************************************************)
(* Model of the currency-converter update daemon (package parserd) and of  *)
(* the HTTP serving layer (package httpserver).                            *)
(*                                                                         *)
(* The main goroutine runs ParserD.Run: an endless loop of                 *)
(* updateCurrencyDataInStorages, GetTimeToNextUpdate, the conditional      *)
(* spawn of HttpServer.Run and time.Sleep.  Every collaborator call is one *)
(* step of the main goroutine, so that the spawned server goroutine and    *)
(* the request handlers interleave with it at the places the Go scheduler  *)
(* allows.  Go pointers are records with a nil flag.                       *)
(***************************************************************************)
EXTENDS Integers, Sequences, FiniteSets, TLC

(***************************************************************************)
(* Bounds of the model.                                                    *)
(***************************************************************************)
MaxCycles == 2
MaxRecords == 1
MaxTail == 2

(***************************************************************************)
(* Program constants of replaceCommasWithDots.                             *)
(***************************************************************************)
START_DATA_INDEX == 100
CHAR_COMMA == 44
CHAR_DOT == 46
\* a byte that is neither a comma nor a dot (the digit '1')
CHAR_OTHER == CHAR_DOT + 3

\* configured update interval of the freshness policy, in clock ticks
UpdateInterval == 1

Bytes == {CHAR_COMMA, CHAR_DOT, CHAR_OTHER}

(***************************************************************************)
(* Go values.  A []byte is nil or a sequence of bytes; Go index i is       *)
(* position i + 1 of the sequence.                                         *)
(***************************************************************************)
NilBytes == [nil |-> TRUE, bytes |-> <<>>]
MkBytes(s) == [nil |-> FALSE, bytes |-> s]

\* *models.UpdateDatetime
NilDatetime == [nil |-> TRUE, Id |-> 0, Datetime |-> 0]
MkDatetime(id, dt) == [nil |-> FALSE, Id |-> id, Datetime |-> dt]
\* the zero-valued UpdateDatetime: "no data yet"
ZeroDatetime == MkDatetime(0, 0)

\* *models.CurrencyStorage
NilStorage == [nil |-> TRUE, Currencies |-> <<>>]
MkStorage(recs) == [nil |-> FALSE, Currencies |-> recs]

\* *time.Duration
NilDuration == [nil |-> TRUE, d |-> 0]
MkDuration(n) == [nil |-> FALSE, d |-> n]

\* what xmlParser.Parse can return: the first n entries of the feed
CharCodes == <<"USD", "EUR", "GBP", "JPY">>
RecordSeqs == {SubSeq(CharCodes, 1, n) : n \in 0..MaxRecords}

(***************************************************************************)
(* replaceCommasWithDots.  The loop is computed as the code runs it; every *)
(* index the loop reads is recorded in touched, and an index outside the   *)
(* slice is the Go runtime's bounds-check panic.                           *)
(***************************************************************************)
RECURSIVE ReplaceLoop(_, _, _)
ReplaceLoopOffByOne(s, i, touched) ==
    IF i <= Len(s)
    THEN IF i >= Len(s)
         THEN [err |-> FALSE, panic |-> TRUE, bytes |-> s, touched |-> touched \cup {i}]
         ELSE ReplaceLoop(IF s[i + 1] = CHAR_COMMA THEN [s EXCEPT ![i + 1] = CHAR_DOT] ELSE s,
                          i + 1, touched \cup {i})
    ELSE [err |-> FALSE, panic |-> FALSE, bytes |-> s, touched |-> touched]

ReplaceLoopAnyByte(s, i, touched) ==
    IF i < Len(s)
    THEN ReplaceLoop([s EXCEPT ![i + 1] = CHAR_DOT], i + 1, touched \cup {i})
    ELSE [err |-> FALSE, panic |-> FALSE, bytes |-> s, touched |-> touched]

ReplaceLoopFirstCommaOnly(s, i, touched) ==
    IF i < Len(s)
    THEN IF s[i + 1] = CHAR_COMMA
         THEN [err |-> FALSE, panic |-> FALSE, bytes |-> [s EXCEPT ![i + 1] = CHAR_DOT],
               touched |-> touched \cup {i}]
         ELSE ReplaceLoop(s, i + 1, touched \cup {i})
    ELSE [err |-> FALSE, panic |-> FALSE, bytes |-> s, touched |-> touched]

ReplaceLoop(s, i, touched) ==
    IF i < Len(s)
    THEN ReplaceLoop(IF s[i + 1] = CHAR_COMMA THEN [s EXCEPT ![i + 1] = CHAR_DOT] ELSE s,
                     i + 1, touched \cup {i})
    ELSE [err |-> FALSE, panic |-> FALSE, bytes |-> s, touched |-> touched]

replaceCommasWithDotsFromZero(data) ==
    IF data.nil
    THEN [err |-> TRUE, panic |-> FALSE, bytes |-> <<>>, touched |-> {}]
    ELSE ReplaceLoop(data.bytes, 0, {})

replaceCommasWithDotsNoNilCheck(data) ==
    ReplaceLoop(data.bytes, START_DATA_INDEX, {})

replaceCommasWithDots(data) ==
    IF data.nil
    THEN [err |-> TRUE, panic |-> FALSE, bytes |-> <<>>, touched |-> {}]
    ELSE ReplaceLoop(data.bytes, START_DATA_INDEX, {})

(***************************************************************************)
(* State.                                                                  *)
(***************************************************************************)
VARIABLES
    pc,                    \* position of the main goroutine in Run
    cycle,                 \* number of the running iteration of the for loop
    now,                   \* wall clock, in ticks
    connected,             \* dbStorage holds an open session
    dbDatetimes,           \* update_datetimes rows; the row's id is its index
    dbCurrencies,          \* currencies rows, by update datetime id
    memUpdateDatetime,     \* memStorage: the update datetime
    memCurrencyStorage,    \* memStorage: the currency storage
    latestUpdateDatetime,  \* locals of updateCurrencyDataInStorages
    latestCurrencyStorage,
    isNeedUpdate,
    currentDatetime,
    panicking,             \* a nil dereference is unwinding the main goroutine
    timeToNextUpdate,      \* local of Run
    isRunning,             \* HttpServer.isRunning
    starting,              \* goroutines spawned at line 89, before line 50 of Run
    listening,             \* goroutines inside ListenAndServe
    spawnedIn,             \* history: the cycles that spawned a goroutine
    lastResponse,          \* outcome of the latest getCurrencies call
    rawData,               \* the buffer handed to replaceCommasWithDots on its own
    repair,                \* what that call did
    genDatetime,           \* history: cycle that set memUpdateDatetime
    genStorage,            \* history: cycle that set memCurrencyStorage
    startMem,              \* history: memStorage when the cycle began
    startDb,               \* history: durable rows when the cycle began
    firstCycleOk,          \* history: the first cycle ended with no failed call
    isReadFromFile,        \* config.IsReadCurrencyDataFromFile
    calls,                 \* history: collaborator calls of the cycle, in order
    errs                   \* history: collaborator calls of the cycle that failed

ctlVars == <<pc, cycle, now>>
dbVars == <<connected, dbDatetimes, dbCurrencies>>
memVars == <<memUpdateDatetime, memCurrencyStorage, genDatetime, genStorage>>
localVars == <<latestUpdateDatetime, latestCurrencyStorage, isNeedUpdate,
               currentDatetime, panicking>>
srvVars == <<isRunning, starting, listening, spawnedIn, lastResponse>>
fetchVars == <<rawData, repair>>
histVars == <<startMem, startDb, firstCycleOk>>
logVars == <<calls, errs>>

vars == <<ctlVars, dbVars, memVars, localVars, timeToNextUpdate, srvVars,
          fetchVars, histVars, logVars, isReadFromFile>>

\* ids the durable store can assign: one per cycle
Ids == 1..MaxCycles
NoRows == [has |-> FALSE, recs |-> <<>>]
NoRepair == [done |-> FALSE, err |-> FALSE, panic |-> FALSE, bytes |-> <<>>, touched |-> {}]
NoResponse == [kind |-> "none", recs |-> <<>>]

\* one entry of the call log: the collaborator, the id passed to it (or
\* returned by GetLatestUpdateDatetime) and the storage passed to it
\* (InsertCurrencies) or returned by it
Call(op, id, st) == [op |-> op, id |-> id, st |-> st]
Called(op) == {i \in 1..Len(calls) : calls[i].op = op}

New ==
    /\ pc = "update" /\ cycle = 1 /\ now = 1
    /\ connected = FALSE
    /\ dbDatetimes = <<>>
    /\ dbCurrencies = [i \in Ids |-> NoRows]
    /\ isReadFromFile \in BOOLEAN
    /\ memUpdateDatetime = NilDatetime
    /\ memCurrencyStorage = NilStorage
    /\ latestUpdateDatetime = NilDatetime
    /\ latestCurrencyStorage = NilStorage
    /\ isNeedUpdate = FALSE
    /\ currentDatetime = 0
    /\ panicking = FALSE
    /\ timeToNextUpdate = NilDuration
    /\ isRunning = FALSE
    /\ starting = 0 /\ listening = 0
    /\ spawnedIn = {}
    /\ lastResponse = NoResponse
    /\ genDatetime = 0 /\ genStorage = 0
    /\ startMem = <<NilDatetime, NilStorage>>
    /\ startDb = <<dbDatetimes, dbCurrencies>>
    /\ firstCycleOk = FALSE
    /\ calls = <<>> /\ errs = {}

Init ==
    /\ New
    /\ rawData = NilBytes
    /\ repair = NoRepair

(***************************************************************************)
(* updateCurrencyDataInStorages, one step per collaborator call.           *)
(***************************************************************************)

\* lines 101-113: the locals are fresh, time.Now() is read, Connect is called
Connect(ok) ==
    /\ pc = "update"
    /\ pc' = "getLatest"
    /\ latestUpdateDatetime' = NilDatetime
    /\ latestCurrencyStorage' = NilStorage
    /\ isNeedUpdate' = FALSE
    /\ currentDatetime' = now
    /\ panicking' = FALSE
    /\ connected' = ok
    /\ startMem' = <<memUpdateDatetime, memCurrencyStorage>>
    /\ startDb' = <<dbDatetimes, dbCurrencies>>
    /\ calls' = <<Call("Connect", 0, NilStorage)>>
    /\ UNCHANGED firstCycleOk
    /\ errs' = IF ok THEN {} ELSE {"Connect"}
    /\ UNCHANGED <<cycle, now, dbDatetimes, dbCurrencies, memVars,
                   timeToNextUpdate, srvVars, fetchVars, isReadFromFile>>

\* dbStorage.GetLatestUpdateDatetime: the newest row, the zero value when there
\* is none, nil with an error
LatestRow ==
    IF dbDatetimes = <<>> THEN ZeroDatetime
    ELSE MkDatetime(Len(dbDatetimes), dbDatetimes[Len(dbDatetimes)])

\* lines 123-126
GetLatestUpdateDatetime(ok) ==
    /\ pc = "getLatest"
    /\ pc' = "isNeed"
    /\ ok => connected
    /\ latestUpdateDatetime' = IF ok THEN LatestRow ELSE NilDatetime
    /\ calls' = Append(calls, Call("GetLatestUpdateDatetime", latestUpdateDatetime'.Id,
                                   NilStorage))
    /\ errs' = IF ok THEN errs ELSE errs \cup {"GetLatestUpdateDatetime"}
    /\ UNCHANGED <<cycle, now, dbVars, memVars, latestCurrencyStorage, isNeedUpdate,
                   currentDatetime, panicking, timeToNextUpdate, srvVars,
                   fetchVars, histVars, isReadFromFile>>

\* timeChecks.IsNeedForUpdateDb: no data yet is always stale; otherwise stale
\* once the update interval has elapsed since the stored datetime
IsStale(latest) ==
    \/ latest.nil
    \/ latest.Id = 0
    \/ now - latest.Datetime >= UpdateInterval

\* lines 128-131
IsNeedForUpdateDb(ok) ==
    /\ pc = "isNeed"
    /\ isNeedUpdate' = IF ok THEN IsStale(latestUpdateDatetime) ELSE FALSE
    /\ pc' = "branch"
    /\ calls' = Append(calls, Call("IsNeedForUpdateDb", 0, NilStorage))
    /\ errs' = IF ok THEN errs ELSE errs \cup {"IsNeedForUpdateDb"}
    /\ UNCHANGED <<cycle, now, dbVars, memVars, latestUpdateDatetime,
                   latestCurrencyStorage, currentDatetime, panicking,
                   timeToNextUpdate, srvVars, fetchVars, histVars, isReadFromFile>>

(***************************************************************************)
(* getParsedDataFromSource, lines 166-203.  retrOk and data are what the   *)
(* configured retrieval collaborator returns, parseOk and recs what        *)
(* xmlParser.Parse returns.  log lists the calls it made, failed the ones   *)
(* that returned an error.                                                 *)
(***************************************************************************)
Header == [i \in 1..START_DATA_INDEX |-> IF i = 1 THEN CHAR_COMMA ELSE CHAR_OTHER]
Feeds == {NilBytes, MkBytes(<<>>), MkBytes(Header \o <<CHAR_OTHER, CHAR_COMMA>>)}

RetrieverAlwaysFile == "fsOps.GetCurrencyData"

Retriever == IF isReadFromFile THEN "fsOps.GetCurrencyData" ELSE "httpClient.GetCurrencyData"

LogOf(names) == [i \in 1..Len(names) |-> Call(names[i], 0, NilStorage)]

\* the call of xmlParser.Parse and what it returned
ParseCall(parseOk, recs) ==
    Call("xmlParser.Parse", 0, IF parseOk THEN MkStorage(recs) ELSE NilStorage)

getParsedDataFromSourceIgnoresRepairError(retrOk, data, parseOk, recs) ==
    LET rep == replaceCommasWithDots(data) IN
    IF ~retrOk
    THEN [st |-> NilStorage, err |-> TRUE, panic |-> FALSE, failed |-> {Retriever},
          log |-> LogOf(<<Retriever>>)]
    ELSE IF ~parseOk
    THEN [st |-> NilStorage, err |-> TRUE, panic |-> FALSE,
          failed |-> {"xmlParser.Parse"}
                       \cup (IF rep.err THEN {"replaceCommasWithDots"} ELSE {}),
          log |-> LogOf(<<Retriever, "replaceCommasWithDots">>)
                    \o <<ParseCall(parseOk, recs)>>]
    ELSE [st |-> MkStorage(recs), err |-> FALSE, panic |-> FALSE,
          failed |-> IF rep.err THEN {"replaceCommasWithDots"} ELSE {},
          log |-> LogOf(<<Retriever, "replaceCommasWithDots">>)
                    \o <<ParseCall(parseOk, recs)>>]

getParsedDataFromSource(retrOk, data, parseOk, recs) ==
    LET rep == replaceCommasWithDots(data) IN
    IF ~retrOk
    THEN [st |-> NilStorage, err |-> TRUE, panic |-> FALSE, failed |-> {Retriever},
          log |-> LogOf(<<Retriever>>)]
    ELSE IF rep.err \/ rep.panic
    THEN [st |-> NilStorage, err |-> TRUE, panic |-> rep.panic,
          failed |-> {"replaceCommasWithDots"},
          log |-> LogOf(<<Retriever, "replaceCommasWithDots">>)]
    ELSE IF ~parseOk
    THEN [st |-> NilStorage, err |-> TRUE, panic |-> FALSE,
          failed |-> {"xmlParser.Parse"},
          log |-> LogOf(<<Retriever, "replaceCommasWithDots">>)
                    \o <<ParseCall(parseOk, recs)>>]
    ELSE [st |-> MkStorage(recs), err |-> FALSE, panic |-> FALSE, failed |-> {},
          log |-> LogOf(<<Retriever, "replaceCommasWithDots">>)
                    \o <<ParseCall(parseOk, recs)>>]

\* lines 133-140
Fetch(retrOk, data, parseOk, recs) ==
    /\ pc = "branch" /\ isNeedUpdate
    /\ LET r == getParsedDataFromSource(retrOk, data, parseOk, recs) IN
        /\ latestCurrencyStorage' = r.st
        /\ calls' = calls \o r.log \o <<Call("getParsedDataFromSource", 0, r.st)>>
        /\ errs' = errs \cup r.failed
                      \cup (IF r.err THEN {"getParsedDataFromSource"} ELSE {})
        /\ panicking' = r.panic
        /\ pc' = IF r.panic THEN "defer" ELSE "insertDt"
    /\ UNCHANGED <<cycle, now, dbVars, memVars, latestUpdateDatetime, isNeedUpdate,
                   currentDatetime, timeToNextUpdate, srvVars, fetchVars, histVars,
                   isReadFromFile>>

\* lines 144-147: the row gets the next id; nil with an error
InsertUpdateDatetime(ok) ==
    /\ pc = "insertDt"
    /\ pc' = "insertCur"
    /\ ok => connected
    /\ IF ok
       THEN /\ dbDatetimes' = Append(dbDatetimes, currentDatetime)
            /\ latestUpdateDatetime' = MkDatetime(Len(dbDatetimes) + 1, currentDatetime)
       ELSE /\ dbDatetimes' = dbDatetimes
            /\ latestUpdateDatetime' = NilDatetime
    /\ calls' = Append(calls, Call("InsertUpdateDatetime", 0, NilStorage))
    /\ errs' = IF ok THEN errs ELSE errs \cup {"InsertUpdateDatetime"}
    /\ UNCHANGED <<cycle, now, connected, dbCurrencies, memVars, latestCurrencyStorage,
                   isNeedUpdate, currentDatetime, panicking, timeToNextUpdate,
                   srvVars, fetchVars, histVars, isReadFromFile>>

\* line 149, the argument latestUpdateDatetime.Id of a nil pointer: the
\* runtime panics and the deferred function runs
InsertCurrenciesNilDeref ==
    /\ pc = "insertCur"
    /\ latestUpdateDatetime.nil
    /\ panicking' = TRUE
    /\ pc' = "defer"
    /\ UNCHANGED <<cycle, now, dbVars, memVars, latestUpdateDatetime,
                   latestCurrencyStorage, isNeedUpdate, currentDatetime,
                   timeToNextUpdate, srvVars, fetchVars, histVars, logVars,
                   isReadFromFile>>

\* lines 149-152: the rows are stored under the id; nothing is stored with an
\* error, and a nil storage is an error
InsertCurrencies(ok) ==
    /\ pc = "insertCur"
    /\ ~latestUpdateDatetime.nil
    /\ pc' = "setDt"
    /\ ok => connected /\ ~latestCurrencyStorage.nil
    /\ dbCurrencies' =
         IF ok
         THEN [dbCurrencies EXCEPT ![latestUpdateDatetime.Id] =
                  [has |-> TRUE, recs |-> latestCurrencyStorage.Currencies]]
         ELSE dbCurrencies
    /\ calls' = Append(calls, Call("InsertCurrencies", latestUpdateDatetime.Id,
                                   latestCurrencyStorage))
    /\ errs' = IF ok THEN errs ELSE errs \cup {"InsertCurrencies"}
    /\ UNCHANGED <<cycle, now, connected, dbDatetimes, memVars, localVars,
                   timeToNextUpdate, srvVars, fetchVars, histVars, isReadFromFile>>

\* line 154, the argument latestUpdateDatetime.Id of a nil pointer
GetLatestCurrenciesNilDeref ==
    /\ pc = "branch" /\ ~isNeedUpdate
    /\ latestUpdateDatetime.nil
    /\ panicking' = TRUE
    /\ pc' = "defer"
    /\ UNCHANGED <<cycle, now, dbVars, memVars, latestUpdateDatetime,
                   latestCurrencyStorage, isNeedUpdate, currentDatetime,
                   timeToNextUpdate, srvVars, fetchVars, histVars, logVars,
                   isReadFromFile>>

\* dbStorage.GetLatestCurrencies: the rows stored under the id
StoredUnder(id) ==
    MkStorage(IF id \in Ids /\ dbCurrencies[id].has THEN dbCurrencies[id].recs ELSE <<>>)

GetLatestCurrenciesDropsResult(ok) ==
    /\ pc = "branch" /\ ~isNeedUpdate
    /\ ~latestUpdateDatetime.nil
    /\ pc' = "setDt"
    /\ ok => connected
    /\ latestCurrencyStorage' = latestCurrencyStorage
    /\ calls' = Append(calls, Call("GetLatestCurrencies", latestUpdateDatetime.Id,
                                   IF ok THEN StoredUnder(latestUpdateDatetime.Id)
                                   ELSE NilStorage))
    /\ errs' = IF ok THEN errs ELSE errs \cup {"GetLatestCurrencies"}
    /\ UNCHANGED <<cycle, now, dbVars, memVars, latestUpdateDatetime, isNeedUpdate,
                   currentDatetime, panicking, timeToNextUpdate, srvVars, fetchVars,
                   histVars, isReadFromFile>>

\* lines 153-158
GetLatestCurrencies(ok) ==
    /\ pc = "branch" /\ ~isNeedUpdate
    /\ ~latestUpdateDatetime.nil
    /\ pc' = "setDt"
    /\ ok => connected
    /\ latestCurrencyStorage' = IF ok THEN StoredUnder(latestUpdateDatetime.Id) ELSE NilStorage
    /\ calls' = Append(calls, Call("GetLatestCurrencies", latestUpdateDatetime.Id,
                                   latestCurrencyStorage'))
    /\ errs' = IF ok THEN errs ELSE errs \cup {"GetLatestCurrencies"}
    /\ UNCHANGED <<cycle, now, dbVars, memVars, latestUpdateDatetime, isNeedUpdate,
                   currentDatetime, panicking, timeToNextUpdate, srvVars, fetchVars,
                   histVars, isReadFromFile>>

\* line 160
SetUpdateDatetimeSkipped ==
    /\ pc = "setDt"
    /\ pc' = "setCur"
    /\ UNCHANGED <<memUpdateDatetime, genDatetime>>
    /\ UNCHANGED <<cycle, now, dbVars, memCurrencyStorage, genStorage, localVars,
                   timeToNextUpdate, srvVars, fetchVars, histVars, logVars,
                   isReadFromFile>>

SetUpdateDatetime ==
    /\ pc = "setDt"
    /\ pc' = "setCur"
    /\ memUpdateDatetime' = latestUpdateDatetime
    /\ genDatetime' = cycle
    /\ UNCHANGED <<cycle, now, dbVars, memCurrencyStorage, genStorage, localVars,
                   timeToNextUpdate, srvVars, fetchVars, histVars, logVars,
                   isReadFromFile>>

SetCurrencyStorageOnlyWhenUpdated ==
    /\ pc = "setCur"
    /\ pc' = "defer"
    /\ memCurrencyStorage' = IF isNeedUpdate THEN latestCurrencyStorage ELSE memCurrencyStorage
    /\ genStorage' = IF isNeedUpdate THEN cycle ELSE genStorage
    /\ UNCHANGED <<cycle, now, dbVars, memUpdateDatetime, genDatetime, localVars,
                   timeToNextUpdate, srvVars, fetchVars, histVars, logVars,
                   isReadFromFile>>

\* line 161
SetCurrencyStorage ==
    /\ pc = "setCur"
    /\ pc' = "defer"
    /\ memCurrencyStorage' = latestCurrencyStorage
    /\ genStorage' = cycle
    /\ UNCHANGED <<cycle, now, dbVars, memUpdateDatetime, genDatetime, localVars,
                   timeToNextUpdate, srvVars, fetchVars, histVars, logVars,
                   isReadFromFile>>

DisconnectNotDeferred(ok) ==
    /\ pc = "defer"
    /\ pc' = IF panicking THEN "crashed" ELSE "timeToNext"
    /\ ok => connected /\ ~panicking
    /\ connected' = IF ok THEN FALSE ELSE connected
    /\ calls' = IF panicking THEN calls
                ELSE Append(calls, Call("Disconnect", 0, NilStorage))
    /\ errs' = IF ok \/ panicking THEN errs ELSE errs \cup {"Disconnect"}
    /\ UNCHANGED <<cycle, now, dbDatetimes, dbCurrencies, memVars, localVars,
                   timeToNextUpdate, srvVars, fetchVars, histVars, isReadFromFile>>

\* lines 114-119, the deferred Disconnect: it runs when the function returns
\* and when it panics; after a panic the process exits
Disconnect(ok) ==
    /\ pc = "defer"
    /\ pc' = IF panicking THEN "crashed" ELSE "timeToNext"
    /\ ok => connected
    /\ connected' = IF ok THEN FALSE ELSE connected
    /\ calls' = Append(calls, Call("Disconnect", 0, NilStorage))
    /\ errs' = IF ok THEN errs ELSE errs \cup {"Disconnect"}
    /\ UNCHANGED <<cycle, now, dbDatetimes, dbCurrencies, memVars, localVars,
                   timeToNextUpdate, srvVars, fetchVars, histVars, isReadFromFile>>

(***************************************************************************)
(* The rest of Run's loop body.                                            *)
(***************************************************************************)

\* lines 80-83: a duration that is never negative; nil with an error
GetTimeToNextUpdate(ok, d) ==
    /\ pc = "timeToNext"
    /\ pc' = "checkServer"
    /\ timeToNextUpdate' = IF ok THEN MkDuration(d) ELSE NilDuration
    /\ calls' = Append(calls, Call("GetTimeToNextUpdate", 0, NilStorage))
    /\ errs' = IF ok THEN errs ELSE errs \cup {"GetTimeToNextUpdate"}
    /\ UNCHANGED <<cycle, now, dbVars, memVars, localVars, srvVars, fetchVars,
                   histVars, isReadFromFile>>

\* lines 85-86, *timeToNextUpdate of a nil pointer: the process exits
LogNextUpdateNilDeref ==
    /\ pc = "checkServer"
    /\ timeToNextUpdate.nil
    /\ pc' = "crashed"
    /\ UNCHANGED <<cycle, now, dbVars, memVars, localVars, timeToNextUpdate, srvVars,
                   fetchVars, histVars, logVars, isReadFromFile>>

StartServerAlways ==
    /\ pc = "checkServer"
    /\ ~timeToNextUpdate.nil
    /\ pc' = "sleep"
    /\ starting' = starting + 1
    /\ spawnedIn' = spawnedIn \cup {cycle}
    /\ UNCHANGED <<cycle, now, dbVars, memVars, localVars, timeToNextUpdate,
                   isRunning, listening, lastResponse, fetchVars, histVars, logVars,
                   isReadFromFile>>

\* lines 85-95: the server goroutine is spawned when isRunning reads false
StartServerIfNotRunning ==
    /\ pc = "checkServer"
    /\ ~timeToNextUpdate.nil
    /\ pc' = "sleep"
    /\ IF ~isRunning
       THEN /\ starting' = starting + 1
            /\ spawnedIn' = spawnedIn \cup {cycle}
       ELSE UNCHANGED <<starting, spawnedIn>>
    /\ UNCHANGED <<cycle, now, dbVars, memVars, localVars, timeToNextUpdate,
                   isRunning, listening, lastResponse, fetchVars, histVars, logVars,
                   isReadFromFile>>

\* line 97 and the jump back to line 78; the locals of the finished call of
\* updateCurrencyDataInStorages are dead, and the history of the cycle ends
Sleep ==
    /\ pc = "sleep"
    /\ cycle < MaxCycles
    /\ pc' = "update"
    /\ cycle' = cycle + 1
    /\ now' = now + timeToNextUpdate.d
    /\ latestUpdateDatetime' = NilDatetime
    /\ latestCurrencyStorage' = NilStorage
    /\ isNeedUpdate' = FALSE
    /\ currentDatetime' = 0
    /\ panicking' = FALSE
    /\ timeToNextUpdate' = NilDuration
    /\ startMem' = <<memUpdateDatetime, memCurrencyStorage>>
    /\ startDb' = <<dbDatetimes, dbCurrencies>>
    /\ firstCycleOk' = IF cycle = 1 THEN errs = {} ELSE firstCycleOk
    /\ calls' = <<>>
    /\ errs' = {}
    /\ UNCHANGED <<dbVars, memVars, srvVars, fetchVars, isReadFromFile>>

(***************************************************************************)
(* HttpServer: the goroutines running Run, and the request handler.  They  *)
(* all end with the process.                                               *)
(***************************************************************************)
Alive == pc # "crashed"

\* http-server.go lines 47-50
ServerRun ==
    /\ Alive
    /\ starting > 0
    /\ starting' = starting - 1
    /\ listening' = listening + 1
    /\ isRunning' = TRUE
    /\ UNCHANGED <<ctlVars, dbVars, memVars, localVars, timeToNextUpdate, spawnedIn,
                   lastResponse, fetchVars, histVars, logVars, isReadFromFile>>

\* http-server.go lines 52-57: ListenAndServe returned an error
ListenAndServeFails ==
    /\ Alive
    /\ listening > 0
    /\ listening' = listening - 1
    /\ isRunning' = FALSE
    /\ UNCHANGED <<ctlVars, dbVars, memVars, localVars, timeToNextUpdate, starting,
                   spawnedIn, lastResponse, fetchVars, histVars, logVars,
                   isReadFromFile>>

getCurrenciesTakesStorage ==
    /\ Alive
    /\ listening > 0
    /\ lastResponse' =
         IF memCurrencyStorage.nil
         THEN [kind |-> "panic", recs |-> <<>>]
         ELSE [kind |-> "ok", recs |-> memCurrencyStorage.Currencies]
    /\ memCurrencyStorage' = NilStorage
    /\ UNCHANGED <<ctlVars, dbVars, memUpdateDatetime, genDatetime, genStorage,
                   localVars, timeToNextUpdate, isRunning, starting, listening,
                   spawnedIn, fetchVars, histVars, logVars, isReadFromFile>>

\* http-server.go lines 34-38 and 62-76: a request served by a listening
\* server; currencyStorage.Currencies of a nil pointer panics in the handler
getCurrencies ==
    /\ Alive
    /\ listening > 0
    /\ lastResponse' =
         IF memCurrencyStorage.nil
         THEN [kind |-> "panic", recs |-> <<>>]
         ELSE [kind |-> "ok", recs |-> memCurrencyStorage.Currencies]
    /\ UNCHANGED <<ctlVars, dbVars, memVars, localVars, timeToNextUpdate,
                   isRunning, starting, listening, spawnedIn, fetchVars, histVars,
                   logVars, isReadFromFile>>

Next ==
    \/ \E ok \in BOOLEAN : Connect(ok)
    \/ \E ok \in BOOLEAN : GetLatestUpdateDatetime(ok)
    \/ \E ok \in BOOLEAN : IsNeedForUpdateDb(ok)
    \/ \E retrOk, parseOk \in BOOLEAN : \E data \in Feeds : \E recs \in RecordSeqs :
          Fetch(retrOk, data, parseOk, recs)
    \/ \E ok \in BOOLEAN : InsertUpdateDatetime(ok)
    \/ InsertCurrenciesNilDeref
    \/ \E ok \in BOOLEAN : InsertCurrencies(ok)
    \/ GetLatestCurrenciesNilDeref
    \/ \E ok \in BOOLEAN : GetLatestCurrencies(ok)
    \/ SetUpdateDatetime
    \/ SetCurrencyStorage
    \/ \E ok \in BOOLEAN : Disconnect(ok)
    \/ \E ok \in BOOLEAN : \E d \in 0..UpdateInterval : GetTimeToNextUpdate(ok, d)
    \/ LogNextUpdateNilDeref
    \/ StartServerIfNotRunning
    \/ Sleep
    \/ ServerRun
    \/ ListenAndServeFails
    \/ getCurrencies

Spec == Init /\ [][Next]_vars

(***************************************************************************)
(* replaceCommasWithDots on its own: the buffers are those of every length *)
(* around the offset, with every byte at the first and the last two header *)
(* indices and at each index past the header.                              *)
(***************************************************************************)
RepairLengths == {0, 1, START_DATA_INDEX - 1, START_DATA_INDEX}
                   \cup (START_DATA_INDEX + 1)..(START_DATA_INDEX + MaxTail)
Probes == {0, START_DATA_INDEX - 2, START_DATA_INDEX - 1}
            \cup START_DATA_INDEX..(START_DATA_INDEX + MaxTail - 1)
RepairBuffers ==
    {MkBytes([i \in 1..n |-> IF (i - 1) \in Probes THEN f[i - 1] ELSE CHAR_OTHER]) :
        n \in RepairLengths, f \in [Probes -> Bytes]}
RepairInputs == {NilBytes} \cup RepairBuffers

InitRepair ==
    /\ New
    /\ rawData \in RepairInputs
    /\ repair = NoRepair

\* the call at line 190
Repair ==
    /\ ~repair.done
    /\ repair' = replaceCommasWithDots(rawData) @@ [done |-> TRUE]
    /\ UNCHANGED <<ctlVars, dbVars, memVars, localVars, timeToNextUpdate, srvVars,
                   rawData, histVars, logVars, isReadFromFile>>

NextRepair == Repair

SpecRepair == InitRepair /\ [][NextRepair]_vars

(***************************************************************************)
(* Properties of the update cycle.  updateCurrencyDataInStorages has       *)
(* returned when pc = "timeToNext"; the history of the cycle is kept until *)
(* Sleep.                                                                  *)
(***************************************************************************)
CycleReturned == pc = "timeToNext"
FetchOps == {"fsOps.GetCurrencyData", "httpClient.GetCurrencyData",
             "replaceCommasWithDots", "xmlParser.Parse", "getParsedDataFromSource"}
InsertOps == {"InsertUpdateDatetime", "InsertCurrencies"}
CalledAny(ops) == UNION {Called(op) : op \in ops}
TheCall(op) == calls[CHOOSE i \in Called(op) : TRUE]
MemSnapshot == <<memUpdateDatetime, memCurrencyStorage>>

\* C1: a cycle in which getParsedDataFromSource, InsertUpdateDatetime or
\* InsertCurrencies failed leaves memStorage holding the update datetime and
\* the currency storage it held when the cycle began.
C1_FailedCyclePreservesCache ==
    (CycleReturned
       /\ errs \cap {"getParsedDataFromSource", "InsertUpdateDatetime", "InsertCurrencies"} # {})
    => MemSnapshot = startMem

\* C2: while a server goroutine is listening, memStorage holds either the
\* pair it held when the cycle began or the pair the cycle publishes, never
\* the update datetime of one with the currency storage of the other.
C2_SnapshotNeverTorn ==
    (listening > 0 /\ pc \in {"setDt", "setCur", "defer"})
    => MemSnapshot \in {startMem, <<latestUpdateDatetime, latestCurrencyStorage>>}

\* C3: whatever collaborator call returns an error, the main goroutine does
\* not crash.
C3_LoopNeverCrashes == pc # "crashed"

\* C4: a cycle that starts with no update datetime row and in which no
\* collaborator fails takes the update branch, calls InsertUpdateDatetime once
\* and InsertCurrencies once with the parsed storage and the id just assigned,
\* and leaves memStorage holding that update datetime and that storage.
C4_FirstCycleEndToEnd ==
    (CycleReturned /\ startDb[1] = <<>> /\ errs = {})
    => /\ isNeedUpdate
       /\ Cardinality(Called("getParsedDataFromSource")) = 1
       /\ Cardinality(Called("InsertUpdateDatetime")) = 1
       /\ Cardinality(Called("InsertCurrencies")) = 1
       /\ LET parsed == TheCall("getParsedDataFromSource").st
              ins == TheCall("InsertCurrencies")
          IN /\ ~parsed.nil
             /\ dbDatetimes = <<currentDatetime>>
             /\ ins.id = 1 /\ ins.st = parsed
             /\ dbCurrencies[1] = [has |-> TRUE, recs |-> parsed.Currencies]
             /\ memUpdateDatetime = MkDatetime(1, currentDatetime)
             /\ memCurrencyStorage = parsed

C4_Witness ==
    /\ CycleReturned /\ startDb[1] = <<>> /\ errs = {}
    /\ Len(memCurrencyStorage.Currencies) = MaxRecords

\* C5: InsertUpdateDatetime and InsertCurrencies are called only in a cycle
\* judged stale whose getParsedDataFromSource succeeded, and a cycle whose
\* fetch failed adds no row to durable storage.
C5_InsertsOnlyAfterSuccessfulFetch ==
    /\ CalledAny(InsertOps) # {}
         => isNeedUpdate /\ "getParsedDataFromSource" \notin errs
    /\ "getParsedDataFromSource" \in errs => <<dbDatetimes, dbCurrencies>> = startDb

\* C6: after every cycle each update datetime row has currencies stored
\* under its id.
C6_EveryDatetimeHasCurrencies ==
    CycleReturned => \A id \in 1..Len(dbDatetimes) : dbCurrencies[id].has

\* C10: in a cycle judged not stale nothing is fetched, nothing is inserted,
\* durable storage is as it was when the cycle began, and the storage
\* published is the one GetLatestCurrencies returned for the id of the update
\* datetime GetLatestUpdateDatetime returned.
C10_FreshCycleOnlyReads ==
    (pc \in {"setDt", "setCur", "defer", "crashed", "timeToNext"} /\ ~isNeedUpdate)
    => /\ CalledAny(FetchOps \cup InsertOps) = {}
       /\ <<dbDatetimes, dbCurrencies>> = startDb
       /\ CycleReturned =>
            /\ Cardinality(Called("GetLatestCurrencies")) = 1
            /\ TheCall("GetLatestCurrencies").id = TheCall("GetLatestUpdateDatetime").id
            /\ memCurrencyStorage = TheCall("GetLatestCurrencies").st
            /\ genStorage = cycle

C10_Witness ==
    /\ CycleReturned /\ ~isNeedUpdate /\ errs = {}
    /\ memCurrencyStorage.Currencies # <<>>

(***************************************************************************)
(* Properties of replaceCommasWithDots, checked under SpecRepair.          *)
(***************************************************************************)
In(i) == rawData.bytes[i + 1]
Out(i) == repair.bytes[i + 1]

\* C7: for a non-nil buffer the length is kept, every byte below index 100 is
\* kept, every comma at index 100 or above becomes a dot and every other byte
\* at index 100 or above is kept.
C7_RepairOnlyCommasPastOffset ==
    (repair.done /\ ~rawData.nil)
    => /\ ~repair.panic
       /\ Len(repair.bytes) = Len(rawData.bytes)
       /\ \A i \in 0..(Len(rawData.bytes) - 1) :
            /\ i < 100 => Out(i) = In(i)
            /\ (i >= 100 /\ In(i) = CHAR_COMMA) => Out(i) = CHAR_DOT
            /\ (i >= 100 /\ In(i) # CHAR_COMMA) => Out(i) = In(i)

C7_Witness ==
    /\ repair.done /\ ~rawData.nil
    /\ Len(rawData.bytes) = START_DATA_INDEX + MaxTail
    /\ In(0) = CHAR_COMMA /\ In(99) = CHAR_COMMA
    /\ In(100) = CHAR_COMMA /\ In(101) = CHAR_OTHER
    /\ Out(100) = CHAR_DOT

\* C8 as stated: replaceCommasWithDots returns an error exactly when its
\* input is nil or has length 0.
C8_ErrorOnNilOrEmpty ==
    repair.done => (repair.err <=> (rawData.nil \/ Len(rawData.bytes) = 0))

\* C8 as amended: replaceCommasWithDots returns an error exactly when its
\* input is nil; an empty buffer that is not nil is accepted.
C8_ErrorIffNil ==
    repair.done => (repair.err <=> rawData.nil)

C8_Witness ==
    /\ repair.done /\ ~rawData.nil /\ Len(rawData.bytes) = 0
    /\ ~repair.err

\* C9: for a non-nil buffer shorter than 100 the call succeeds, touches no
\* index outside the buffer and leaves every byte as it was.
C9_ShortBufferUntouched ==
    (repair.done /\ ~rawData.nil /\ Len(rawData.bytes) < 100)
    => /\ ~repair.err /\ ~repair.panic
       /\ repair.touched \subseteq 0..(Len(rawData.bytes) - 1)
       /\ repair.bytes = rawData.bytes

C9_Witness ==
    /\ repair.done /\ ~rawData.nil
    /\ Len(rawData.bytes) = 99
    /\ In(0) = CHAR_COMMA /\ In(98) = CHAR_COMMA
    /\ ~repair.err

(***************************************************************************)
(* Further properties of the update cycle and of the serving layer.        *)
(***************************************************************************)

\* C11: when a cycle in which no collaborator returned an error has
\* returned, memStorage holds the newest update datetime row of durable
\* storage and the currencies stored under that row's id.
C11_CacheEqualsDurableLatest ==
    (CycleReturned /\ errs = {})
    => /\ dbDatetimes # <<>>
       /\ memUpdateDatetime = LatestRow
       /\ memCurrencyStorage = StoredUnder(Len(dbDatetimes))

C11_Witness ==
    /\ CycleReturned /\ errs = {} /\ ~isNeedUpdate
    /\ cycle = 2
    /\ memUpdateDatetime.Id = 1
    /\ memCurrencyStorage.Currencies # <<>>

\* goroutines whose Run has returned: ListenAndServe gave an error
Exited == Cardinality(spawnedIn) - starting - listening

\* C12 as stated: no cycle after the first spawns HttpServer.Run.
C12_SpawnOnlyInFirstCycle == spawnedIn \subseteq {1}

\* C12 as amended: a cycle spawns HttpServer.Run only when isRunning reads
\* false at its check, and in a cycle after the first that is only when an
\* earlier goroutine has not yet set isRunning or its Run has returned an error.
C12_SpawnOnlyWhenNotRunning ==
    [][spawnedIn' # spawnedIn
         => /\ ~isRunning
            /\ spawnedIn' = spawnedIn \cup {cycle}
            /\ cycle > 1 => (starting > 0 \/ Exited > 0)]_vars

C12_Witness ==
    /\ 2 \in spawnedIn
    /\ Exited > 0

RetrieveOps == {"fsOps.GetCurrencyData", "httpClient.GetCurrencyData"}

\* C13: getParsedDataFromSource returns either the storage the parser
\* returned and no error, or nil and an error; after a failed retrieval it
\* calls neither replaceCommasWithDots nor the parser, and after a failed
\* replaceCommasWithDots it does not call the parser.
C13_FetchAllOrNothing ==
    Called("getParsedDataFromSource") # {}
    => LET f == TheCall("getParsedDataFromSource") IN
       /\ f.st.nil <=> "getParsedDataFromSource" \in errs
       /\ "getParsedDataFromSource" \in errs
            <=> errs \cap (RetrieveOps \cup {"replaceCommasWithDots", "xmlParser.Parse"}) # {}
       /\ ~f.st.nil => /\ Cardinality(Called("xmlParser.Parse")) = 1
                       /\ f.st = TheCall("xmlParser.Parse").st
       /\ errs \cap RetrieveOps # {}
            => Called("replaceCommasWithDots") = {} /\ Called("xmlParser.Parse") = {}
       /\ "replaceCommasWithDots" \in errs => Called("xmlParser.Parse") = {}

C13_Witness ==
    /\ "replaceCommasWithDots" \in errs
    /\ Called("replaceCommasWithDots") # {}
    /\ TheCall("getParsedDataFromSource").st.nil

\* C14: memStorage changes only in the two Set calls of the main goroutine
\* (lines 160 and 161); serving a request leaves it as it was.
C14_OnlyPublishChangesCache ==
    [][/\ MemSnapshot' # MemSnapshot
            => \/ pc = "setDt" /\ pc' = "setCur"
               \/ pc = "setCur" /\ pc' = "defer"
       /\ lastResponse' # lastResponse => MemSnapshot' = MemSnapshot]_vars

C14_Witness ==
    /\ lastResponse.kind = "ok"
    /\ cycle = 2 /\ pc = "setCur"
    /\ lastResponse.recs = memCurrencyStorage.Currencies
    /\ ~memCurrencyStorage.nil

DbOps == {"Connect", "GetLatestUpdateDatetime", "InsertUpdateDatetime",
          "InsertCurrencies", "GetLatestCurrencies", "Disconnect"}

\* C15: in every cycle Connect is the first durable-storage call and is made
\* once, every other durable-storage call comes before Disconnect, Disconnect
\* is made exactly once, after both Set calls of a cycle that publishes, and
\* before GetTimeToNextUpdate and the sleep.
C15_ConnectFirstDisconnectLast ==
    /\ calls # <<>>
         => calls[1].op = "Connect" /\ Cardinality(Called("Connect")) = 1
    /\ \A d \in Called("Disconnect") : \A j \in CalledAny(DbOps) : j <= d
    /\ \A d \in Called("Disconnect") : \A j \in Called("GetTimeToNextUpdate") : d < j
    /\ pc \in {"getLatest", "isNeed", "branch", "insertDt", "insertCur",
               "setDt", "setCur", "defer"} => Called("Disconnect") = {}
    /\ pc \in {"timeToNext", "checkServer", "sleep", "crashed"}
         => Cardinality(Called("Disconnect")) = 1
    /\ (Called("Disconnect") # {} /\ ~panicking)
         => genDatetime = cycle /\ genStorage = cycle

C15_Witness ==
    /\ pc = "sleep"
    /\ "InsertCurrencies" \in errs
    /\ calls[Len(calls) - 1].op = "Disconnect"
    /\ genStorage = cycle

FetchUsedOneRetriever ==
    Called("getParsedDataFromSource") # {}
      => /\ Cardinality(CalledAny(RetrieveOps)) = 1
         /\ isReadFromFile => Called("fsOps.GetCurrencyData") # {}
         /\ ~isReadFromFile => Called("httpClient.GetCurrencyData") # {}

\* C16: every fetch calls exactly one of the two retrieval collaborators, the
\* one the configuration selects, and the selection never changes during a
\* run, so every cycle uses the same collaborator.
C16_ExactlyOneRetrieverFixedAtStartup ==
    [][/\ isReadFromFile' = isReadFromFile
       /\ FetchUsedOneRetriever']_vars

C16_Witness ==
    /\ cycle = 2
    /\ ~isReadFromFile
    /\ Called("getParsedDataFromSource") # {}
    /\ Cardinality(Called("httpClient.GetCurrencyData")) = 1
    /\ Called("fsOps.GetCurrencyData") = {}

\* C17: at most one invocation of HttpServer.Run is in flight at any time: no
\* second server goroutine is started while the first is starting or serving.
C17_AtMostOneServerRunInFlight == starting + listening <= 1

FirstCycleHadNoError ==
    IF cycle = 1 THEN pc = "sleep" /\ errs = {} ELSE firstCycleOk

\* C18: the server is started, and so every request is served, only after the
\* first call of updateCurrencyDataInStorages has returned; and when that
\* first cycle had no collaborator error every request finds a published
\* currency storage in the cache.
C18_RequestsSeePublishedSnapshot ==
    /\ (spawnedIn # {} \/ lastResponse.kind # "none")
         => (cycle > 1 \/ pc = "sleep")
    /\ (FirstCycleHadNoError /\ lastResponse.kind # "none")
         => lastResponse.kind = "ok"

\* C19: from one publish to the next the id of the update datetime held in
\* the cache never decreases, and the cache never goes from holding an update
\* datetime or a currency storage back to holding none.
C19_CacheNeverRegresses ==
    /\ ~startMem[1].nil
         => ~memUpdateDatetime.nil /\ memUpdateDatetime.Id >= startMem[1].Id
    /\ ~startMem[2].nil => ~memCurrencyStorage.nil

\* C20: replaceCommasWithDots is idempotent: for every non-nil buffer a second
\* application to the result of the first returns the same bytes without
\* error, and after one application no comma is left at any index >= 100.
C20_RepairIdempotent ==
    (repair.done /\ ~rawData.nil)
    => LET again == replaceCommasWithDots(MkBytes(repair.bytes)) IN
       /\ ~again.err /\ ~again.panic
       /\ again.bytes = repair.bytes
       /\ \A i \in 0..(Len(repair.bytes) - 1) :
            i >= 100 => Out(i) # CHAR_COMMA

C20_Witness ==
    /\ repair.done /\ ~rawData.nil
    /\ Len(rawData.bytes) = START_DATA_INDEX + MaxTail
    /\ In(99) = CHAR_COMMA
    /\ In(100) = CHAR_COMMA /\ In(101) = CHAR_COMMA
    /\ Out(99) = CHAR_COMMA
    /\ Out(100) = CHAR_DOT /\ Out(101) = CHAR_DOT

=============================================================================
